---- MODULE Spec2Model ----
(***************************************************************************)
(* GitHubRepoTrigger: a timer-driven job that pulls a user's public        *)
(* repositories from GitHub (with topics and README) through a cached,     *)
(* retrying request client and reconciles them against a backend store.    *)
(*                                                                         *)
(* The program is single-threaded JavaScript.  A macrotask (timer fired,   *)
(* HTTP response arrived, backoff timer elapsed) runs to its next real     *)
(* suspension; the promise continuations that become runnable run before   *)
(* any further macrotask.  Continuations are modelled as separate steps    *)
(* and a macrotask action is enabled only when no continuation is ready    *)
(* to run (Quiescent), which gives the same atomicity.                     *)
(***************************************************************************)
EXTENDS Integers, Sequences, FiniteSets, TLC

(* ------------------------------ bounds -------------------------------- *)
MaxRepos == 2
MaxTicks == 2
MaxNow == 250000
MaxFaults == 3
MaxListed == 6

\* What one process lifetime is explored up to: timer invocations, listed
\* repositories, GitHub responses other than the expected one.  Each of the
\* first three profiles extends one of the three to its bound; the last one
\* lists more repositories than one batch holds.
Profiles ==
  {[ticks |-> 1, repos |-> MaxRepos, faults |-> 1],
   [ticks |-> 1, repos |-> 1, faults |-> MaxFaults],
   [ticks |-> MaxTicks, repos |-> 1, faults |-> 1],
   [ticks |-> 1, repos |-> MaxListed, faults |-> 0]}

\* For termination, also the run over one repository in which every attempt
\* of every GitHub request (list, topics, README) may fail.
FairProfiles ==
  {p \in Profiles : p.ticks > 1 \/ p.repos > 1}
    \cup {[ticks |-> 1, repos |-> 1, faults |-> 3 * 3]}

(* -------------------------- program constants ------------------------- *)
CACHE_TTL == 4 * 60 * 1000
maxRetries == 3
BATCH_SIZE == 5
DefaultReadme == "# Hello, *World*!"

(* ------------------------ the two remote systems ---------------------- *)
\* Full names the upstream may list, and the full names the backend may hold.
UpstreamNames == {"A", "C"}
BackendNames == {"A", "B"}
\* A listing that needs more than one batch.
LongListing == <<"A", "C", "D", "E", "F", "G", "H">>
ListedNames == UpstreamNames \cup {LongListing[i] : i \in 1..Len(LongListing)}
RepoNames == ListedNames \cup BackendNames

\* The id GitHub gives a repository, and the id the backend assigned to the
\* record it stores under that full name: two independent id spaces.
SourceId(name) ==
  CASE name = "A" -> 1 [] name = "B" -> 2 [] name = "C" -> 3 [] name = "D" -> 4
    [] name = "E" -> 5 [] name = "F" -> 6 [] name = "G" -> 7 [] OTHER -> 8
BackendId(name) == CASE name = "A" -> 10 [] name = "B" -> 20 [] OTHER -> 30

NoId == 0

\* Sequences over S of length at most n, in the order of the source ids (the
\* order of the full names), without repetition.
SortedSeqs(S, n) ==
  LET longest == IF n < Cardinality(S) THEN n ELSE Cardinality(S)
  IN UNION {{s \in [1..k -> S] :
               \A i, j \in 1..k : i < j => SourceId(s[i]) < SourceId(s[j])} :
            k \in 0..longest}

\* GET /users/{username}/repos: full names are unique in a user's namespace
\* and the listing is sorted by full name.  Listings of up to n repositories:
\* every short one, and the long ones that fill at least one batch.
RepoLists(n) ==
  SortedSeqs(UpstreamNames, n)
    \cup {SubSeq(LongListing, 1, k) : k \in 5..(IF n < Len(LongListing) THEN n ELSE Len(LongListing))}

\* GET /api/github-repos: the stored records, unique by full name.
StoredRecord(name) == [id |-> BackendId(name), fullName |-> name]
StoredLists ==
  {[i \in 1..Len(s) |-> StoredRecord(s[i])] : s \in SortedSeqs(BackendNames, MaxRepos)}

(* ------------------------------ values -------------------------------- *)
\* Header values are decimal digit strings; <<>> is an absent (or empty) header.
NoHeader == <<>>
ResetHeaders ==
  {NoHeader, <<0>>, <<8, 6, 3, 9, 9>>, <<9, 5, 1, 7, 8, 2, 4, 0, 0>>,
   <<1, 7, 0, 0, 0, 0, 0, 0, 0, 0>>}

\* Response bodies.  "null" is a JSON null body; "other" is a body that is
\* not the expected object (a string, or an object without the field read).
NullBody == [kind |-> "null"]
OtherBody == [kind |-> "other"]
ListBody(l) == [kind |-> "list", repos |-> l]
TopicsBody(t) == [kind |-> "topics", names |-> t]
ReadmeBody(text) == [kind |-> "readme", content |-> [base64 |-> text]]

TopicLists == {<<"t1">>}
ReadmeTexts == {"# readme"}

ListKey == [path |-> "users/repos", name |-> "jvegar", params |-> "type=public"]
\* A mutation of TopicsKey: the key leaves the repository's name out.
TopicsKeyShared(name) == [path |-> "topics", name |-> "A", params |-> ""]
TopicsKey(name) == [path |-> "topics", name |-> name, params |-> ""]
ReadmeKey(name) == [path |-> "readme", name |-> name, params |-> ""]
Keys == {ListKey} \cup {TopicsKey(n) : n \in ListedNames}
                  \cup {ReadmeKey(n) : n \in ListedNames}

Bodies(key, n) ==
  CASE key.path = "users/repos" -> {ListBody(l) : l \in RepoLists(n)}
    [] key.path = "topics" -> {TopicsBody(t) : t \in TopicLists} \cup {NullBody, OtherBody}
    [] OTHER -> {ReadmeBody(t) : t \in ReadmeTexts} \cup {OtherBody}

\* What axios.get can settle with.  status 0 is a failure without a response
\* (network error); every status other than 200 rejects the promise.
Response(status, remaining, reset, body) ==
  [status |-> status, remaining |-> remaining, reset |-> reset, body |-> body]
Responses(key, n) ==
  {Response(200, <<5>>, NoHeader, b) : b \in Bodies(key, n)}
    \cup {Response(401, NoHeader, NoHeader, NullBody)}
    \cup {Response(403, <<0>>, r, NullBody) : r \in ResetHeaders}
    \cup {Response(403, <<5>>, NoHeader, NullBody)}
    \cup {Response(500, NoHeader, NoHeader, NullBody)}
    \cup {Response(0, NoHeader, NoHeader, NullBody)}
NoResponse == Response(-1, NoHeader, NoHeader, NullBody)

(* ------------------------------ errors -------------------------------- *)
AuthError ==
  [kind |-> "error", name |-> "Error",
   message |-> "GitHub API authentication failed. Please check if your GITHUB_TOKEN is valid."]
RateLimitError(iso) ==
  [kind |-> "error", name |-> "Error",
   message |-> "GitHub API rate limit exceeded. Resets at", resetsAt |-> iso]
MaxRetriesError ==
  [kind |-> "error", name |-> "Error", message |-> "Max retries exceeded"]
\* The rejection axios.get produced for a response, thrown on unchanged.
AxiosError(resp) == [kind |-> "error", name |-> "AxiosError", response |-> resp]

(* ------------------- header parsing and the reset date ---------------- *)
RECURSIVE ParseDigits(_, _)
ParseDigits(h, acc) ==
  IF h = <<>> THEN acc ELSE ParseDigits(Tail(h), acc * 10 + Head(h))
\* parseInt(h || '0')
ParseIntOr0(h) == ParseDigits(IF h = NoHeader THEN <<0>> ELSE h, 0)

SecondsPerDay == 24 * 60 * 60
MsPerDay == SecondsPerDay * 1000

\* A JavaScript time value (ms since the epoch, a double) held as the day
\* number and the millisecond within the day.
TimeValue(day, msOfDay) == [day |-> day, msOfDay |-> msOfDay]

\* A mutation of ResetTime: the header's seconds are taken as milliseconds.
ResetTimeUnscaled(resetHeader) ==
  LET n == ParseIntOr0(resetHeader)
  IN TimeValue(n \div MsPerDay, n % MsPerDay)

\* new Date(parseInt(headers['x-ratelimit-reset'] || '0') * 1000)
ResetTime(resetHeader) ==
  LET sec == ParseIntOr0(resetHeader)
  IN TimeValue(sec \div SecondsPerDay, (sec % SecondsPerDay) * 1000)

\* Date.prototype.toISOString for a time value at or after the epoch:
\* the proleptic Gregorian date of the day number and the time of day, UTC.
ToISOString(t) ==
  LET z == t.day + 719468
      era == z \div 146097
      doe == z - era * 146097
      yoe == (doe - doe \div 1460 + doe \div 36524 - doe \div 146096) \div 365
      doy == doe - (365 * yoe + yoe \div 4 - yoe \div 100)
      mp == (5 * doy + 2) \div 153
      d == doy - (153 * mp + 2) \div 5 + 1
      m == IF mp < 10 THEN mp + 3 ELSE mp - 9
      y == yoe + era * 400 + (IF m <= 2 THEN 1 ELSE 0)
  IN [year |-> y, month |-> m, day |-> d,
      hour |-> t.msOfDay \div 3600000,
      minute |-> (t.msOfDay \div 60000) % 60,
      second |-> (t.msOfDay \div 1000) % 60,
      millisecond |-> t.msOfDay % 1000]

(* ------------------------------- state -------------------------------- *)
VARIABLES
  now,              \* Date.now(), in ms since the process started
  cache,            \* the module-level Map: cache key -> entry
  ticks,            \* timer invocations so far
  pc,               \* where GitHubRepoTrigger is suspended
  existingRepos,    \* the records GET /api/github-repos returned
  existingRepoMap,  \* fullName -> backend id of the stored record
  req,              \* the makeGitHubRequest call of each async chain
  data,             \* fetchPublicRepos: the listed repositories
  bi,               \* fetchPublicRepos: i, the start of the current batch
  tpc,              \* per listed repository: where its batch.map callback is
  topics,           \* per listed repository: the awaited topics
  readme,           \* per listed repository: the awaited README text
  results,          \* fetchPublicRepos: results, then githubRepos
  newRepos,         \* GitHubRepoTrigger: repositories to create
  updateRepos,      \* GitHubRepoTrigger: repositories to update, with ids
  wi,               \* start of the current write batch
  writes,           \* the POST and PUT calls issued in this run, in order
  outcome,          \* how the last finished run ended
  faults,           \* GitHub responses other than the expected one so far
  limits,           \* the profile of this process
  denied            \* cache keys of the requests refused (401, rate limit) in this run

vars ==
  <<now, cache, ticks, pc, existingRepos, existingRepoMap, req, data, bi, tpc, topics,
    readme, results, newRepos, updateRepos, wi, writes, outcome, faults,
    limits, denied>>

\* Async chains: 0 is GitHubRepoTrigger -> fetchPublicRepos; i >= 1 is the
\* batch.map callback of data[i].
Chains == 0..MaxListed
Slots == 1..MaxListed

NoEntry == [kind |-> "none"]
Entry(payload, t) == [kind |-> "entry", data |-> payload, timestamp |-> t]

Undefined == [kind |-> "undefined"]
Array(items) == [kind |-> "array", items |-> items]

IdleReq ==
  [st |-> "idle", key |-> ListKey, retryCount |-> 0, gets |-> 0, waits |-> <<>>,
   last |-> NoResponse, hit |-> FALSE, value |-> NullBody, wakeAt |-> 0]

NoOutcome == [kind |-> "none", processed |-> 0, added |-> 0, updated |-> 0]
Aborted == [kind |-> "aborted", processed |-> 0, added |-> 0, updated |-> 0]
\* A mutation of Summary: the two counts are logged in each other's place.
SummarySwapped(p, a, u) ==
  [kind |-> "summary", processed |-> p, added |-> u, updated |-> a]

Summary(p, a, u) == [kind |-> "summary", processed |-> p, added |-> a, updated |-> u]

\* The module state after load, before the first timer invocation.
Loaded ==
  /\ now = 0
  /\ cache = [k \in Keys |-> NoEntry]
  /\ ticks = 0
  /\ pc = "idle"
  /\ existingRepos = <<>>
  /\ existingRepoMap = [n \in RepoNames |-> NoId]
  /\ req = [c \in Chains |-> IdleReq]
  /\ data = <<>>
  /\ bi = 0
  /\ tpc = [i \in Slots |-> "none"]
  /\ topics = [i \in Slots |-> Undefined]
  /\ readme = [i \in Slots |-> ""]
  /\ results = <<>>
  /\ newRepos = <<>>
  /\ updateRepos = <<>>
  /\ wi = 0
  /\ writes = <<>>
  /\ outcome = NoOutcome
  /\ faults = 0
  /\ denied = {}

Init == Loaded /\ limits \in Profiles

(* ------------------------- makeGitHubRequest --------------------------- *)
\* A mutation of CacheFresh: an entry exactly TTL old still counts as fresh.
CacheFreshInclusive(c, t, key) ==
  c[key].kind = "entry" /\ t - c[key].timestamp <= CACHE_TTL

\* A mutation of CacheFresh: the age is compared in seconds.
CacheFreshSeconds(c, t, key) ==
  c[key].kind = "entry" /\ t - c[key].timestamp < CACHE_TTL \div 1000

\* cached && Date.now() - cached.timestamp < CACHE_TTL
CacheFresh(c, t, key) ==
  c[key].kind = "entry" /\ t - c[key].timestamp < CACHE_TTL

\* The call up to its first suspension: a fresh entry is returned, otherwise
\* the loop is entered and the first axios.get is issued.
StartRequest(key) ==
  IF CacheFresh(cache, now, key)
  THEN [IdleReq EXCEPT !.st = "returned", !.key = key, !.hit = TRUE,
                       !.value = cache[key].data]
  ELSE [IdleReq EXCEPT !.st = "sending", !.key = key, !.gets = 1]

RECURSIVE Pow2(_)
Pow2(n) == IF n = 0 THEN 1 ELSE 2 * Pow2(n - 1)

\* A mutation of Delay: the exponent is one too high.
DelayDoubled(retryCount) == Pow2(retryCount + 1) * 1000

\* Math.pow(2, retryCount) * 1000
Delay(retryCount) == Pow2(retryCount) * 1000

\* A mutation of IsAuthFailure: the wrong status is tested, a 401 is retried.
IsAuthFailureWrongStatus(resp) == resp.status = 400

\* The catch block's two early exits.
IsAuthFailure(resp) == resp.status = 401
IsRateLimited(resp) == resp.status = 403 /\ resp.remaining = <<0>>

\* A mutation of MayRetry: the call gives up one attempt early.
MayRetryEarly(retryCount) == retryCount < maxRetries - 2

\* if (retryCount < maxRetries - 1)
MayRetry(retryCount) == retryCount < maxRetries - 1

\* The call's state after axios.get settled with resp.  On success the
\* rate-limit log and warning change no state and are left out.
AfterResponse(r, resp) ==
  LET s == [r EXCEPT !.last = resp]
  IN IF resp.status = 200
       THEN [s EXCEPT !.st = "returned", !.value = resp.body]
     ELSE IF IsAuthFailure(resp)
       THEN [s EXCEPT !.st = "thrown", !.value = AuthError]
     ELSE IF IsRateLimited(resp)
       THEN [s EXCEPT !.st = "thrown",
                      !.value = RateLimitError(ToISOString(ResetTime(resp.reset)))]
     ELSE IF MayRetry(r.retryCount)
       THEN [s EXCEPT !.st = "sleeping",
                      !.waits = Append(@, Delay(r.retryCount)),
                      !.wakeAt = now + Delay(r.retryCount)]
     ELSE [s EXCEPT !.st = "thrown", !.value = AxiosError(resp)]

\* A mutation of CacheAfter: the entry is written whatever the response was.
CacheAfterAlways(key, resp) == [cache EXCEPT ![key] = Entry(resp.body, now)]

\* cache.set(cacheKey, {data: response.data, timestamp: Date.now()})
CacheAfter(key, resp) ==
  IF resp.status = 200 THEN [cache EXCEPT ![key] = Entry(resp.body, now)] ELSE cache

\* A mutation of AfterWake: the timer callback does not resolve the promise
\* the loop awaits.
AfterWakeUnresolved(r) == r

\* The call's state after the backoff timer fired: retryCount++; continue.
AfterWake(r) ==
  IF r.retryCount + 1 < maxRetries
  THEN [r EXCEPT !.st = "sending", !.retryCount = @ + 1, !.gets = @ + 1]
  ELSE [r EXCEPT !.st = "thrown", !.retryCount = @ + 1, !.value = MaxRetriesError]

Settled(r) == r.st \in {"returned", "thrown"}
InBatch(i) == pc = "awaitBatch" /\ i \in Slots /\ bi < i /\ i <= bi + BATCH_SIZE /\ i <= Len(data)

\* A promise continuation is ready to run.
Runnable ==
  \/ pc = "awaitList" /\ Settled(req[0])
  \/ pc = "awaitBatch" /\ \E i \in Slots : InBatch(i) /\ tpc[i] # "done" /\ Settled(req[i])
  \/ pc = "awaitBatch" /\ \A i \in Slots : InBatch(i) => tpc[i] = "done"
  \/ pc \in {"awaitCreates", "awaitUpdates"}
       /\ \A k \in 1..Len(writes) : writes[k].status # "pending"
  \/ pc \in {"fetchLoop", "partition", "createLoop", "updateLoop"}
Quiescent == ~Runnable

Max(a, b) == IF a >= b THEN a ELSE b

\* The response the endpoint gives when nothing goes wrong.
Expected(resp) == resp.status = 200 /\ resp.body.kind \in {"list", "topics", "readme"}

\* axios.get settles for chain c.
ReqRespond(c, resp) ==
  /\ Quiescent
  /\ req[c].st = "sending"
  /\ resp \in Responses(req[c].key, limits.repos)
  /\ Expected(resp) \/ faults < limits.faults
  /\ faults' = IF Expected(resp) THEN faults ELSE faults + 1
  /\ req' = [req EXCEPT ![c] = AfterResponse(req[c], resp)]
  /\ cache' = CacheAfter(req[c].key, resp)
  /\ denied' = IF IsAuthFailure(resp) \/ IsRateLimited(resp)
                 THEN denied \cup {req[c].key} ELSE denied
  /\ UNCHANGED <<now, ticks, pc, existingRepos, existingRepoMap, data, bi, tpc,
                 topics, readme, results, newRepos, updateRepos, wi, writes,
                 outcome, limits>>

\* The setTimeout of the backoff fires, at or after its deadline.
ReqWake(c) ==
  /\ Quiescent
  /\ req[c].st = "sleeping"
  /\ Max(now, req[c].wakeAt) <= MaxNow
  /\ now' = Max(now, req[c].wakeAt)
  /\ req' = [req EXCEPT ![c] = AfterWake(req[c])]
  /\ UNCHANGED <<cache, ticks, pc, existingRepos, existingRepoMap, data, bi,
                 tpc, topics, readme, results, newRepos, updateRepos, wi,
                 writes, outcome, faults, limits, denied>>

\* Time passes between two runs (the clock starts at the first run).
PassTimes == {CACHE_TTL - 3000, CACHE_TTL}
PassTime(d) ==
  /\ pc = "idle"
  /\ 0 < ticks /\ ticks < limits.ticks
  /\ d \in PassTimes
  /\ now + d <= MaxNow
  /\ now' = now + d
  /\ UNCHANGED <<cache, ticks, pc, existingRepos, existingRepoMap, req, data,
                 bi, tpc, topics, readme, results, newRepos, updateRepos, wi,
                 writes, outcome, faults, limits, denied>>

(* --------------------------- fetchers ---------------------------------- *)
\* Buffer.from(content, 'base64').toString('utf-8')
Base64Decode(content) == content.base64

\* A mutation of TopicsResult: the catch does not supply the fallback.
TopicsResultNoFallback(r) ==
  IF r.st = "thrown" THEN Undefined
  ELSE IF r.value.kind = "null" THEN Array(<<>>)
  ELSE IF r.value.kind = "topics" THEN Array(r.value.names)
  ELSE Undefined

\* fetchRepoTopics: data.names, or [] when the request or the read threw.
\* Reading .names of null throws; of any other body without it gives undefined.
TopicsResult(r) ==
  IF r.st = "thrown" THEN Array(<<>>)
  ELSE IF r.value.kind = "null" THEN Array(<<>>)
  ELSE IF r.value.kind = "topics" THEN Array(r.value.names)
  ELSE Undefined

\* fetchReadme: the decoded content, or the default when anything threw.
\* Buffer.from(undefined) throws, as does reading .content of null.
ReadmeResult(r) ==
  IF r.st = "thrown" THEN DefaultReadme
  ELSE IF r.value.kind = "readme" THEN Base64Decode(r.value.content)
  ELSE DefaultReadme

\* { ...repo, topics, readme }
GitHubRepo(name, t, rd) ==
  [id |-> SourceId(name), full_name |-> name, topics |-> t, readme |-> rd]

(* --------------------------- GitHubRepoTrigger ------------------------- *)
Min(a, b) == IF a <= b THEN a ELSE b

\* new Map(existingRepos.data.map(repo => [repo.fullName, repo])), as the id
\* found under each full name: a later record replaces an earlier one.
RepoMap(stored) ==
  [n \in RepoNames |->
     LET hits == {i \in 1..Len(stored) : stored[i].fullName = n}
     IN IF hits = {} THEN NoId
        ELSE stored[CHOOSE i \in hits : \A j \in hits : j <= i].id]

\* The timer fires: the run starts and awaits the backend list.
TimerFire ==
  /\ Quiescent
  /\ pc = "idle"
  /\ ticks < limits.ticks
  /\ ticks' = ticks + 1
  /\ pc' = "awaitBackend"
  /\ existingRepos' = <<>>
  /\ existingRepoMap' = [n \in RepoNames |-> NoId]
  /\ results' = <<>>
  /\ newRepos' = <<>>
  /\ updateRepos' = <<>>
  /\ writes' = <<>>
  /\ outcome' = NoOutcome
  /\ denied' = {}
  /\ UNCHANGED <<now, cache, req, data, bi, tpc, topics, readme, wi, faults,
                 limits>>

\* GET /api/github-repos fails: the outer catch logs and the run ends.
BackendFail ==
  /\ pc = "awaitBackend"
  /\ pc' = "idle"
  /\ outcome' = Aborted
  /\ UNCHANGED <<now, cache, ticks, existingRepos, existingRepoMap, req, data,
                 bi, tpc, topics, readme, results, newRepos, updateRepos, wi,
                 writes, faults, limits, denied>>

\* GET /api/github-repos succeeds: the map is built and fetchPublicRepos
\* makes the list request.
BackendRespond(stored) ==
  /\ pc = "awaitBackend"
  /\ stored \in StoredLists
  /\ existingRepos' = stored
  /\ existingRepoMap' = RepoMap(stored)
  /\ req' = [req EXCEPT ![0] = StartRequest(ListKey)]
  /\ pc' = "awaitList"
  /\ UNCHANGED <<now, cache, ticks, data, bi, tpc, topics, readme, results,
                 newRepos, updateRepos, wi, writes, outcome, faults, limits,
                 denied>>

\* A mutation of ListFailed: fetchPublicRepos swallows the error and returns
\* no repositories, so the run goes on to its summary.
ListFailedGoesOn ==
  /\ pc = "awaitList"
  /\ req[0].st = "thrown"
  /\ req' = [req EXCEPT ![0] = IdleReq]
  /\ data' = <<>>
  /\ bi' = 0
  /\ pc' = "fetchLoop"
  /\ UNCHANGED <<now, cache, ticks, existingRepos, existingRepoMap, tpc, topics,
                 readme, results, newRepos, updateRepos, wi, writes, outcome,
                 faults, limits, denied>>

\* The list request threw: fetchPublicRepos logs and rethrows, the outer
\* catch logs and the run ends.
ListFailed ==
  /\ pc = "awaitList"
  /\ req[0].st = "thrown"
  /\ req' = [req EXCEPT ![0] = IdleReq]
  /\ pc' = "idle"
  /\ outcome' = Aborted
  /\ UNCHANGED <<now, cache, ticks, existingRepos, existingRepoMap, data, bi,
                 tpc, topics, readme, results, newRepos, updateRepos, wi,
                 writes, faults, limits, denied>>

\* The list request returned: the batch loop starts at i = 0.
ListReturned ==
  /\ pc = "awaitList"
  /\ req[0].st = "returned"
  /\ data' = req[0].value.repos
  /\ bi' = 0
  /\ results' = <<>>
  /\ req' = [req EXCEPT ![0] = IdleReq]
  /\ pc' = "fetchLoop"
  /\ UNCHANGED <<now, cache, ticks, existingRepos, existingRepoMap, tpc, topics,
                 readme, newRepos, updateRepos, wi, writes, outcome, faults,
                 limits, denied>>

\* A mutation of BatchOf: the slice is one too long.
BatchOfWide(lo, len) == {i \in 1..len : lo < i /\ i <= lo + BATCH_SIZE + 1}

\* data.slice(i, i + BATCH_SIZE), as the positions it holds.
BatchOf(lo, len) == {i \in 1..len : lo < i /\ i <= lo + BATCH_SIZE}

\* for (i = 0; i < data.length; i += BATCH_SIZE): batch.map starts every
\* callback of the batch, each up to the first suspension of its topics
\* request; past the end, fetchPublicRepos returns results.
FetchLoop ==
  /\ pc = "fetchLoop"
  /\ IF bi < Len(data)
       THEN /\ req' = [c \in Chains |->
                         IF c \in BatchOf(bi, Len(data))
                         THEN StartRequest(TopicsKey(data[c])) ELSE req[c]]
            /\ tpc' = [i \in Slots |->
                         IF i \in BatchOf(bi, Len(data)) THEN "topics" ELSE tpc[i]]
            /\ pc' = "awaitBatch"
       ELSE /\ pc' = "partition"
            /\ UNCHANGED <<req, tpc>>
  /\ UNCHANGED <<now, cache, ticks, existingRepos, existingRepoMap, data, bi,
                 topics, readme, results, newRepos, updateRepos, wi, writes,
                 outcome, faults, limits, denied>>

\* A mutation of TopicsSettled: fetchReadme is called without awaiting the
\* topics.
TopicsNotAwaited(i) ==
  /\ InBatch(i)
  /\ tpc[i] = "topics"
  /\ topics' = [topics EXCEPT ![i] = TopicsResult(req[i])]
  /\ req' = [req EXCEPT ![i] = StartRequest(ReadmeKey(data[i]))]
  /\ tpc' = [tpc EXCEPT ![i] = "readme"]
  /\ UNCHANGED <<now, cache, ticks, pc, existingRepos, existingRepoMap, data,
                 bi, readme, results, newRepos, updateRepos, wi, writes,
                 outcome, faults, limits, denied>>

\* await fetchRepoTopics(...) resumes; fetchReadme makes its request.
TopicsSettled(i) ==
  /\ InBatch(i)
  /\ tpc[i] = "topics"
  /\ Settled(req[i])
  /\ topics' = [topics EXCEPT ![i] = TopicsResult(req[i])]
  /\ req' = [req EXCEPT ![i] = StartRequest(ReadmeKey(data[i]))]
  /\ tpc' = [tpc EXCEPT ![i] = "readme"]
  /\ UNCHANGED <<now, cache, ticks, pc, existingRepos, existingRepoMap, data,
                 bi, readme, results, newRepos, updateRepos, wi, writes,
                 outcome, faults, limits, denied>>

\* await fetchReadme(...) resumes; the callback returns its record.
ReadmeSettled(i) ==
  /\ InBatch(i)
  /\ tpc[i] = "readme"
  /\ Settled(req[i])
  /\ readme' = [readme EXCEPT ![i] = ReadmeResult(req[i])]
  /\ req' = [req EXCEPT ![i] = IdleReq]
  /\ tpc' = [tpc EXCEPT ![i] = "done"]
  /\ UNCHANGED <<now, cache, ticks, pc, existingRepos, existingRepoMap, data,
                 bi, topics, results, newRepos, updateRepos, wi, writes,
                 outcome, faults, limits, denied>>

\* Promise.all of the batch resolves: results.push(...batchResults).
BatchSettled ==
  /\ pc = "awaitBatch"
  /\ \A i \in Slots : InBatch(i) => tpc[i] = "done"
  /\ LET hi == Min(bi + BATCH_SIZE, Len(data))
     IN results' = results \o [k \in 1..(hi - bi) |->
                                 GitHubRepo(data[bi + k], topics[bi + k], readme[bi + k])]
  /\ bi' = bi + BATCH_SIZE
  /\ tpc' = [i \in Slots |-> "none"]
  /\ topics' = [i \in Slots |-> Undefined]
  /\ readme' = [i \in Slots |-> ""]
  /\ pc' = "fetchLoop"
  /\ UNCHANGED <<now, cache, ticks, existingRepos, existingRepoMap, req, data,
                 newRepos, updateRepos, wi, writes, outcome, faults, limits,
                 denied>>

\* for (const repo of githubRepos): split by existingRepoMap.get(full_name).
IsNew(repo) == existingRepoMap[repo.full_name] = NoId
\* A mutation of UpdateEntry: the update is addressed by the source id.
UpdateEntrySourceId(repo) == [repo |-> repo, id |-> repo.id]

UpdateEntry(repo) == [repo |-> repo, id |-> existingRepoMap[repo.full_name]]

NewRepos(repos) == SelectSeq(repos, IsNew)

\* A mutation of UpdateRepos: the else is lost, every repository is updated.
UpdateReposAll(repos) == [k \in 1..Len(repos) |-> UpdateEntry(repos[k])]

UpdateRepos(repos) ==
  LET old == SelectSeq(repos, LAMBDA r : ~IsNew(r))
  IN [k \in 1..Len(old) |-> UpdateEntry(old[k])]

Partition ==
  /\ pc = "partition"
  /\ newRepos' = NewRepos(results)
  /\ updateRepos' = UpdateRepos(results)
  /\ wi' = 0
  /\ pc' = "createLoop"
  /\ UNCHANGED <<now, cache, ticks, existingRepos, existingRepoMap, req, data,
                 bi, tpc, topics, readme, results, writes, outcome, faults,
                 limits, denied>>

\* The GitHubRepoAPI body (name, htmlUrl, description and language are
\* copied through and not modelled).
ApiRepo(repo) ==
  [id |-> repo.id, fullName |-> repo.full_name, topics |-> repo.topics,
   readme |-> repo.readme]
PostCall(repo) ==
  [method |-> "POST", id |-> NoId, body |-> ApiRepo(repo), status |-> "pending"]
PutCall(entry) ==
  [method |-> "PUT", id |-> entry.id, body |-> ApiRepo(entry.repo), status |-> "pending"]

\* A mutation of CreateLoop: Promise.all of the create batch is not awaited.
CreateLoopNotAwaited ==
  /\ pc = "createLoop"
  /\ IF wi < Len(newRepos)
       THEN /\ writes' = writes \o
                 [k \in 1..(Min(wi + BATCH_SIZE, Len(newRepos)) - wi) |->
                    PostCall(newRepos[wi + k])]
            /\ pc' = "createLoop"
            /\ wi' = wi + BATCH_SIZE
       ELSE /\ wi' = 0
            /\ pc' = "updateLoop"
            /\ writes' = writes
  /\ UNCHANGED <<now, cache, ticks, existingRepos, existingRepoMap, req, data,
                 bi, tpc, topics, readme, results, newRepos, updateRepos,
                 outcome, faults, limits, denied>>

\* The create loop: the batch's POSTs are all issued, or the loop is over.
CreateLoop ==
  /\ pc = "createLoop"
  /\ IF wi < Len(newRepos)
       THEN /\ writes' = writes \o
                 [k \in 1..(Min(wi + BATCH_SIZE, Len(newRepos)) - wi) |->
                    PostCall(newRepos[wi + k])]
            /\ pc' = "awaitCreates"
            /\ wi' = wi
       ELSE /\ wi' = 0
            /\ pc' = "updateLoop"
            /\ writes' = writes
  /\ UNCHANGED <<now, cache, ticks, existingRepos, existingRepoMap, req, data,
                 bi, tpc, topics, readme, results, newRepos, updateRepos,
                 outcome, faults, limits, denied>>

\* A mutation of WriteRespond: the per-item try/catch is missing, so a failed
\* call rejects Promise.all and the outer catch ends the run.
WriteRespondAborts(k, ok) ==
  /\ Quiescent
  /\ pc \in {"awaitCreates", "awaitUpdates"}
  /\ k \in 1..Len(writes)
  /\ writes[k].status = "pending"
  /\ writes' = [writes EXCEPT ![k].status = IF ok THEN "ok" ELSE "failed"]
  /\ pc' = IF ok THEN pc ELSE "idle"
  /\ outcome' = IF ok THEN outcome ELSE Aborted
  /\ UNCHANGED <<now, cache, ticks, existingRepos, existingRepoMap, req, data,
                 bi, tpc, topics, readme, results, newRepos, updateRepos, wi,
                 faults, limits, denied>>

\* One POST or PUT settles; its try/catch logs either way.
WriteRespond(k, ok) ==
  /\ Quiescent
  /\ pc \in {"awaitCreates", "awaitUpdates"}
  /\ k \in 1..Len(writes)
  /\ writes[k].status = "pending"
  /\ writes' = [writes EXCEPT ![k].status = IF ok THEN "ok" ELSE "failed"]
  /\ UNCHANGED <<now, cache, ticks, pc, existingRepos, existingRepoMap, req,
                 data, bi, tpc, topics, readme, results, newRepos, updateRepos,
                 wi, outcome, faults, limits, denied>>

AllWritesSettled == \A k \in 1..Len(writes) : writes[k].status # "pending"

\* Promise.all of a create batch resolves.
CreatesSettled ==
  /\ pc = "awaitCreates"
  /\ AllWritesSettled
  /\ wi' = wi + BATCH_SIZE
  /\ pc' = "createLoop"
  /\ UNCHANGED <<now, cache, ticks, existingRepos, existingRepoMap, req, data,
                 bi, tpc, topics, readme, results, newRepos, updateRepos,
                 writes, outcome, faults, limits, denied>>

\* The update loop: the batch's PUTs are all issued, or the loop is over and
\* the summary is logged.
UpdateLoop ==
  /\ pc = "updateLoop"
  /\ IF wi < Len(updateRepos)
       THEN /\ writes' = writes \o
                 [k \in 1..(Min(wi + BATCH_SIZE, Len(updateRepos)) - wi) |->
                    PutCall(updateRepos[wi + k])]
            /\ pc' = "awaitUpdates"
            /\ UNCHANGED <<wi, outcome>>
       ELSE /\ outcome' = Summary(Len(results), Len(newRepos), Len(updateRepos))
            /\ pc' = "idle"
            /\ wi' = 0
            /\ writes' = writes
  /\ UNCHANGED <<now, cache, ticks, existingRepos, existingRepoMap, req, data,
                 bi, tpc, topics, readme, results, newRepos, updateRepos,
                 faults, limits, denied>>

\* Promise.all of an update batch resolves.
UpdatesSettled ==
  /\ pc = "awaitUpdates"
  /\ AllWritesSettled
  /\ wi' = wi + BATCH_SIZE
  /\ pc' = "updateLoop"
  /\ UNCHANGED <<now, cache, ticks, existingRepos, existingRepoMap, req, data,
                 bi, tpc, topics, readme, results, newRepos, updateRepos,
                 writes, outcome, faults, limits, denied>>

Next ==
  \/ TimerFire
  \/ BackendFail
  \/ \E stored \in StoredLists : BackendRespond(stored)
  \/ \E c \in Chains : \E resp \in Responses(req[c].key, limits.repos) : ReqRespond(c, resp)
  \/ \E c \in Chains : ReqWake(c)
  \/ \E d \in PassTimes : PassTime(d)
  \/ ListFailed
  \/ ListReturned
  \/ FetchLoop
  \/ \E i \in Slots : TopicsSettled(i)
  \/ \E i \in Slots : ReadmeSettled(i)
  \/ BatchSettled
  \/ Partition
  \/ CreateLoop
  \/ \E k \in 1..Len(writes) : \E ok \in BOOLEAN : WriteRespond(k, ok)
  \/ CreatesSettled
  \/ UpdateLoop
  \/ UpdatesSettled

Spec == Init /\ [][Next]_vars

\* The steps of a run in progress: every HTTP call that is pending settles,
\* every backoff timer fires, and the event loop runs every continuation that
\* is ready.  When the timer fires next, and how much time passes between
\* runs, is left open.
RunStep ==
  \/ BackendFail
  \/ \E stored \in StoredLists : BackendRespond(stored)
  \/ \E c \in Chains : \E resp \in Responses(req[c].key, limits.repos) : ReqRespond(c, resp)
  \/ \E c \in Chains : ReqWake(c)
  \/ ListFailed
  \/ ListReturned
  \/ FetchLoop
  \/ \E i \in Slots : TopicsSettled(i)
  \/ \E i \in Slots : ReadmeSettled(i)
  \/ BatchSettled
  \/ Partition
  \/ CreateLoop
  \/ \E k \in 1..Len(writes) : \E ok \in BOOLEAN : WriteRespond(k, ok)
  \/ CreatesSettled
  \/ UpdateLoop
  \/ UpdatesSettled

FairInit == Loaded /\ limits \in FairProfiles
FairSpec == FairInit /\ [][Next]_vars /\ WF_vars(RunStep)

(* ======================================================================= *)
(* Properties                                                              *)
(* ======================================================================= *)
\* The run reached its summary (it was not aborted) and has returned.
RunSummarised == pc = "idle" /\ outcome.kind = "summary"

Fetched(n) == \E i \in 1..Len(results) : results[i].full_name = n
Stored(n) == \E i \in 1..Len(existingRepos) : existingRepos[i].fullName = n
StoredId(n) ==
  existingRepos[CHOOSE i \in 1..Len(existingRepos) : existingRepos[i].fullName = n].id
Posts(n) ==
  {k \in 1..Len(writes) : writes[k].method = "POST" /\ writes[k].body.fullName = n}
Puts(n) ==
  {k \in 1..Len(writes) : writes[k].method = "PUT" /\ writes[k].body.fullName = n}

\* C1: in a run that is not aborted, a fetched repository whose full name is
\* not stored gets exactly one POST, a fetched repository whose full name is
\* stored gets exactly one PUT addressed to the id of the stored record with
\* that full name, and a stored record that was not fetched gets no call.
C1_Reconciliation ==
  RunSummarised =>
    \A n \in RepoNames :
      /\ (Fetched(n) /\ ~Stored(n)) =>
           Cardinality(Posts(n)) = 1 /\ Puts(n) = {}
      /\ (Fetched(n) /\ Stored(n)) =>
           /\ Cardinality(Puts(n)) = 1
           /\ Posts(n) = {}
           /\ \A k \in Puts(n) : writes[k].id = StoredId(n)
      /\ ~Fetched(n) =>
           /\ Posts(n) = {} /\ Puts(n) = {}
           /\ Stored(n) => \A k \in 1..Len(writes) : writes[k].id # StoredId(n)

\* Stored {A: 10, B: 20}, fetched {A, C}: one create for C, one update to id
\* 10 for A, nothing for B.
C1_Witness ==
  /\ RunSummarised
  /\ Stored("A") /\ Stored("B") /\ StoredId("A") = 10 /\ StoredId("B") = 20
  /\ Len(results) = 2 /\ Fetched("A") /\ Fetched("C")
  /\ Len(writes) = 2
  /\ writes[1].method = "POST" /\ writes[1].body.fullName = "C"
  /\ writes[2].method = "PUT" /\ writes[2].body.fullName = "A" /\ writes[2].id = 10

WritesOf(n) == {k \in 1..Len(writes) : writes[k].body.fullName = n}

\* C2: within one run every write carries the full name of exactly one
\* repository fetched in that run, no full name is written twice, and once
\* the run is over every fetched repository has exactly one create or update
\* call, whatever the write calls answered; a run that ends without a summary
\* had fetched nothing.
C2_OneWritePerFetched ==
  /\ \A k \in 1..Len(writes) :
       Cardinality({i \in 1..Len(results) :
                      results[i].full_name = writes[k].body.fullName}) = 1
  /\ \A k, l \in 1..Len(writes) :
       k # l => writes[k].body.fullName # writes[l].body.fullName
  /\ RunSummarised =>
       \A i \in 1..Len(results) : Cardinality(WritesOf(results[i].full_name)) = 1
  /\ (pc = "idle" /\ outcome.kind = "aborted") => results = <<>>

\* A run over two fetched repositories in which one write failed and one
\* succeeded.
C2_Witness ==
  /\ RunSummarised
  /\ Len(results) = 2
  /\ Len(writes) = 2
  /\ writes[1].status = "failed"
  /\ writes[2].status = "ok"

\* Chain c makes a makeGitHubRequest call in this step.
Started(c) ==
  /\ req'[c].st # "idle"
  /\ req[c].st = "idle" \/ req'[c].key # req[c].key

\* C3: a call made while the entry of its key exists and is younger than the
\* TTL returns the payload stored in that entry, issues no network call, waits
\* for no retry and leaves the cache alone.
C3_FreshEntryIsReturned ==
  [][\A c \in Chains :
       (/\ Started(c)
        /\ cache[req'[c].key].kind = "entry"
        /\ now - cache[req'[c].key].timestamp < 4 * 60 * 1000)
       => /\ req'[c].st = "returned"
          /\ req'[c].value = cache[req'[c].key].data
          /\ req'[c].gets = 0
          /\ req'[c].waits = <<>>
          /\ cache' = cache]_vars

\* A call answered from an entry that is almost as old as the TTL.
C3_Witness ==
  \E c \in Chains :
    /\ req[c].st = "returned"
    /\ req[c].hit
    /\ req[c].gets = 0
    /\ now - cache[req[c].key].timestamp >= CACHE_TTL - 3000

\* C4: a call made when the entry of its key is TTL old or older issues a
\* network call instead of returning the entry, and a successful response
\* overwrites the entry with the new payload and the time of the response.
C4_StaleEntryIsRefetched ==
  [][\A c \in Chains :
       /\ (/\ Started(c)
           /\ cache[req'[c].key].kind = "entry"
           /\ now - cache[req'[c].key].timestamp >= 4 * 60 * 1000)
          => /\ req'[c].st = "sending"
             /\ req'[c].gets = 1
             /\ ~req'[c].hit
       /\ (req[c].st = "sending" /\ req'[c].st = "returned")
          => /\ req'[c].last.status = 200
             /\ req'[c].value = req'[c].last.body
             /\ cache'[req[c].key] = Entry(req'[c].last.body, now')]_vars

\* A request in flight for a key whose entry is exactly TTL old.
C4_Witness ==
  \E c \in Chains :
    /\ req[c].st = "sending"
    /\ cache[req[c].key].kind = "entry"
    /\ now - cache[req[c].key].timestamp = CACHE_TTL

\* C5: a call whose latest response is a 401 has failed with the
\* authentication error; no attempt and no backoff wait followed the response.
C5_AuthFailsAtOnce ==
  \A c \in Chains :
    req[c].last.status = 401 =>
      /\ req[c].st = "thrown"
      /\ req[c].value = AuthError
      /\ req[c].gets = req[c].retryCount + 1
      /\ Len(req[c].waits) = req[c].retryCount

\* A 401 received by the third attempt.
C5_Witness ==
  \E c \in Chains :
    req[c].last.status = 401 /\ req[c].retryCount = 2 /\ req[c].st = "thrown"

\* The unix seconds of an ISO-8601 instant (UTC, Gregorian calendar).
IsoToUnixSeconds(iso) ==
  LET y == IF iso.month <= 2 THEN iso.year - 1 ELSE iso.year
      era == y \div 400
      yoe == y - era * 400
      mp == IF iso.month > 2 THEN iso.month - 3 ELSE iso.month + 9
      doy == (153 * mp + 2) \div 5 + iso.day - 1
      doe == yoe * 365 + yoe \div 4 - yoe \div 100 + doy
      days == era * 146097 + doe - 719468
  IN days * 86400 + iso.hour * 3600 + iso.minute * 60 + iso.second

RECURSIVE DecimalValue(_)
DecimalValue(digits) ==
  IF digits = <<>> THEN 0
  ELSE 10 * DecimalValue(SubSeq(digits, 1, Len(digits) - 1)) + digits[Len(digits)]

\* C6: a call whose latest response is a 403 with x-ratelimit-remaining 0 has
\* failed with the rate-limit error; no attempt and no backoff wait followed,
\* and the error carries the ISO-8601 instant of the x-ratelimit-reset header's
\* unix seconds (the epoch when the header is absent).
C6_RateLimitFailsAtOnce ==
  \A c \in Chains :
    (req[c].last.status = 403 /\ req[c].last.remaining = <<0>>) =>
      /\ req[c].st = "thrown"
      /\ "resetsAt" \in DOMAIN req[c].value
      /\ req[c].value.message = "GitHub API rate limit exceeded. Resets at"
      /\ req[c].gets = req[c].retryCount + 1
      /\ Len(req[c].waits) = req[c].retryCount
      /\ req[c].value.resetsAt.millisecond = 0
      /\ IsoToUnixSeconds(req[c].value.resetsAt) = DecimalValue(req[c].last.reset)

\* A rate-limit failure whose reset header is 1700000000, which is
\* 2023-11-14T22:13:20.000Z.
C6_Witness ==
  \E c \in Chains :
    /\ req[c].st = "thrown"
    /\ req[c].last.status = 403
    /\ req[c].last.reset = <<1, 7, 0, 0, 0, 0, 0, 0, 0, 0>>
    /\ "resetsAt" \in DOMAIN req[c].value
    /\ req[c].value.resetsAt =
         [year |-> 2023, month |-> 11, day |-> 14, hour |-> 22, minute |-> 13,
          second |-> 20, millisecond |-> 0]

\* The call failed with the error of an ordinary (retryable) response.
Exhausted(c) == req[c].st = "thrown" /\ req[c].value.name = "AxiosError"

\* C7: a call never makes more than 3 network attempts; it surfaces the
\* failure of an ordinary response only after exactly 3 attempts; and a call
\* that returned a response's payload made no attempt after that response and
\* cached the payload it returns.
C7_ThreeAttempts ==
  \A c \in Chains :
    /\ req[c].gets <= 3
    /\ req[c].st \in {"sending", "sleeping"} => req[c].gets = req[c].retryCount + 1
    /\ Exhausted(c) =>
         /\ req[c].gets = 3
         /\ req[c].last.status \notin {200, 401}
         /\ ~(req[c].last.status = 403 /\ req[c].last.remaining = <<0>>)
    /\ (req[c].st = "returned" /\ ~req[c].hit) =>
         /\ req[c].last.status = 200
         /\ req[c].value = req[c].last.body
         /\ req[c].gets = req[c].retryCount + 1
         /\ cache[req[c].key] = Entry(req[c].value, now)

\* Three ordinary failures in a row, the last one a network error.
C7_Witness ==
  \E c \in Chains : Exhausted(c) /\ req[c].gets = 3 /\ req[c].last.status = 0

\* C8 as stated: when all attempts fail, the waits before the failure is
\* surfaced are 1s, 2s and 4s.
C8_Original ==
  \A c \in Chains : Exhausted(c) => req[c].waits = <<1000, 2000, 4000>>

\* C8 as amended: the waits are 1s after the first failed attempt and 2s
\* after the second, exactly; no wait follows the third failed attempt.
C8_Backoff ==
  \A c \in Chains :
    /\ req[c].waits \in {<<>>, <<1000>>, <<1000, 2000>>}
    /\ req[c].st = "sleeping" =>
         /\ Len(req[c].waits) = req[c].retryCount + 1
         /\ req[c].wakeAt - req[c].waits[Len(req[c].waits)] <= now
    /\ req[c].st = "sending" => Len(req[c].waits) = req[c].retryCount
    /\ Exhausted(c) => req[c].waits = <<1000, 2000>>

\* A call that failed after three ordinary failures and two waits.
C8_Witness ==
  \E c \in Chains : Exhausted(c) /\ req[c].waits = <<1000, 2000>>

\* C9: after the third failed attempt (ordinary failures only) the failure
\* propagated is the "max retries exceeded" failure.
C9_MaxRetriesExceeded ==
  \A c \in Chains :
    (/\ req[c].st = "thrown"
     /\ req[c].gets = 3
     /\ req[c].last.status \in {0, 403, 500}
     /\ req[c].last.remaining # <<0>>)
    => req[c].value = MaxRetriesError

\* C10: whenever the request of fetchRepoTopics fails or answers with a body
\* that is not a topics object the topics are the empty list, and whenever the
\* request of fetchReadme fails or answers with a body that is not a README
\* object the README is the default string.
C10_FetchersFallBack ==
  [][\A i \in Slots :
       /\ (/\ tpc[i] = "topics" /\ tpc'[i] = "readme"
           /\ req[i].st = "thrown" \/ req[i].value.kind # "topics")
          => topics'[i] = Array(<<>>)
       /\ (/\ tpc[i] = "readme" /\ tpc'[i] = "done"
           /\ req[i].st = "thrown" \/ req[i].value.kind # "readme")
          => readme'[i] = DefaultReadme]_vars

\* The batch.map callback of listed repository i has started and not returned.
Fetching(i) == tpc[i] \in {"topics", "readme"}
BatchNo(i) == (i - 1) \div 5
Ceil5(n) == (n + 4) \div 5

\* A step that starts fetches starts a whole batch and nothing else.
BatchStartsWhole ==
  (\E i \in Slots : ~Fetching(i) /\ Fetching(i)')
    => /\ bi % 5 = 0 /\ bi < Len(data) /\ Len(results) = bi
       /\ \A c \in Chains : req[c].st = "idle"
       /\ \A i \in Slots : Fetching(i)' <=> (bi < i /\ i <= bi + 5 /\ i <= Len(data))

\* The loop index is reset by a new listing and otherwise moves by one batch,
\* when every fetch of the batch has settled and its records are appended.
IndexMovesByBatch ==
  (bi' # bi)
    => \/ bi' = 0 /\ pc = "awaitList"
       \/ /\ bi' = bi + 5
          /\ \A i \in Slots : ~Fetching(i)'
          /\ \A c \in Chains : req[c].st = "idle"
          /\ Len(results') = IF bi + 5 < Len(data) THEN bi + 5 ELSE Len(data)

\* C11: the repositories being fetched are at most 5 and all of one batch,
\* and every earlier batch is complete in results; a batch starts only at a
\* multiple of 5, with no fetch unsettled, and starts exactly the next (up to)
\* 5 listed repositories; the loop index moves only by 5 and only when every
\* fetch of the batch has settled; and fetchPublicRepos returns after
\* ceil(N/5) batches with one completed record per listed repository, in
\* list order.
C11_SequentialBatches ==
  /\ [](/\ Cardinality({i \in Slots : Fetching(i)}) <= 5
        /\ \A i, j \in Slots : (Fetching(i) /\ Fetching(j)) => BatchNo(i) = BatchNo(j)
        /\ \A i \in Slots :
             Fetching(i) => i <= Len(data) /\ bi = 5 * BatchNo(i) /\ Len(results) = bi
        /\ \A i \in Slots : (req[i].st # "idle") => Fetching(i)
        /\ pc = "partition" =>
             /\ bi = 5 * Ceil5(Len(data))
             /\ Len(results) = Len(data)
             /\ \A k \in 1..Len(data) :
                  /\ results[k].full_name = data[k]
                  /\ results[k].id = SourceId(data[k])
                  /\ DOMAIN results[k] = {"id", "full_name", "topics", "readme"})
  /\ [][BatchStartsWhole /\ IndexMovesByBatch]_vars

\* Six listed repositories were fetched in two batches.
C11_Witness ==
  /\ pc = "partition"
  /\ Len(data) = 6
  /\ bi = 10
  /\ Len(results) = 6
  /\ results[6].full_name = "G"

CreateCalls == {k \in 1..Len(writes) : writes[k].method = "POST"}
UpdateCalls == {k \in 1..Len(writes) : writes[k].method = "PUT"}

\* C12: a run that reached its summary reports as processed the number of
\* repositories fetched (one per listed repository), as new the number of
\* create calls issued and as updated the number of update calls issued, and
\* processed = new + updated; with 2 repositories fetched and no stored record
\* that is 2 create calls, no update call and a summary of 2, 2, 0.
C12_SummaryCounts ==
  RunSummarised =>
    /\ outcome.processed = Len(results)
    /\ outcome.processed = Len(data)
    /\ outcome.added = Cardinality(CreateCalls)
    /\ outcome.updated = Cardinality(UpdateCalls)
    /\ outcome.processed = outcome.added + outcome.updated
    /\ (Len(data) = 2 /\ existingRepos = <<>>) =>
         /\ Cardinality(CreateCalls) = 2
         /\ UpdateCalls = {}
         /\ outcome.processed = 2 /\ outcome.added = 2 /\ outcome.updated = 0

\* Two repositories fetched against an empty backend.
C12_Witness ==
  /\ RunSummarised
  /\ existingRepos = <<>>
  /\ Len(data) = 2 /\ Len(results) = 2
  /\ Cardinality(CreateCalls) = 2
  /\ outcome.processed = 2 /\ outcome.added = 2 /\ outcome.updated = 0

Failed(k) == writes[k].status = "failed"

\* The calls issued are the creates of newRepos in order, then the updates of
\* updateRepos in order.
WritesComplete ==
  /\ Len(writes) = Len(newRepos) + Len(updateRepos)
  /\ \A k \in 1..Len(newRepos) :
       writes[k].method = "POST" /\ writes[k].body.fullName = newRepos[k].full_name
  /\ \A k \in 1..Len(updateRepos) :
       /\ writes[Len(newRepos) + k].method = "PUT"
       /\ writes[Len(newRepos) + k].body.fullName = updateRepos[k].repo.full_name

\* C13: a create or update call that fails changes nothing but its own
\* outcome; a run in which a call failed is never aborted; and a run that
\* issued calls ends with its summary and with every create and update call
\* issued, whichever of them failed.
C13_WriteFailureIsolated ==
  /\ []((\E k \in 1..Len(writes) : Failed(k)) => outcome.kind # "aborted")
  /\ []((pc = "idle" /\ writes # <<>>) => (RunSummarised /\ WritesComplete))
  /\ []((pc \in {"updateLoop", "awaitUpdates"})
          => Cardinality(CreateCalls) = Len(newRepos))
  /\ [][\A k \in 1..Len(writes) :
          (writes[k].status = "pending" /\ k <= Len(writes') /\ Failed(k)')
          => /\ pc' = pc /\ wi' = wi /\ outcome' = outcome
             /\ Len(writes') = Len(writes)
             /\ \A j \in 1..Len(writes) : j # k => writes'[j] = writes[j]]_vars

\* Six creates in two batches: the first call of the first batch failed, the
\* call of the second batch was still issued and the summary was logged.
C13_Witness ==
  /\ RunSummarised
  /\ Cardinality(CreateCalls) = 6
  /\ Failed(1)
  /\ writes[2].status = "ok"
  /\ writes[6].status = "ok"

\* A step that leaves the backend call without going on to the list request,
\* and any step taken once the list request has thrown, ends the run.
AbortsWhenListFails ==
  (\/ pc = "awaitBackend" /\ pc' \notin {"awaitBackend", "awaitList"}
   \/ pc = "awaitList" /\ req[0].st = "thrown")
    => /\ pc' = "idle" /\ outcome' = Aborted /\ writes' = <<>>
       /\ \A c \in Chains : req'[c].st = "idle"

\* C14: when the backend list call fails, or the repository-list request of
\* fetchPublicRepos fails, the run ends there: it returns with the error
\* logged by the outer catch, no summary, no create or update call and no
\* further GitHub request; and a run that ended that way issued no call.
C14_AbortOnListFailure ==
  /\ [](outcome.kind = "aborted" => (pc = "idle" /\ writes = <<>>))
  /\ [][AbortsWhenListFails]_vars

\* The backend answered and the list request then failed on all 3 attempts.
C14_Witness ==
  /\ pc = "idle"
  /\ outcome.kind = "aborted"
  /\ existingRepos # <<>>
  /\ faults = 3
  /\ writes = <<>>

\* C15 as stated: once any GitHub request of the run, a topics or README
\* request included, was answered 401 or 403 with no quota left, the run
\* issues no create or update call.
C15_Original == denied # {} => writes = <<>>

\* C15 as amended: a 401 or rate-limit 403 answered to the repository-list
\* request aborts the run, which issues no create or update call; answered
\* to a topics or README request it is absorbed by the fetcher, whose
\* fallback (no topics, the default README) goes into that repository's
\* record, and the run goes on to its writes and its summary.
C15_ListDenialAborts ==
  /\ ListKey \in denied =>
       /\ writes = <<>>
       /\ pc \in {"awaitList", "idle"}
       /\ pc = "idle" => outcome.kind = "aborted"
  /\ (ListKey \notin denied /\ denied # {} /\ pc = "idle") =>
       /\ RunSummarised
       /\ \A n \in ListedNames :
            /\ TopicsKey(n) \in denied =>
                 /\ WritesOf(n) # {}
                 /\ \A k \in WritesOf(n) : writes[k].body.topics = Array(<<>>)
            /\ ReadmeKey(n) \in denied =>
                 /\ WritesOf(n) # {}
                 /\ \A k \in WritesOf(n) : writes[k].body.readme = DefaultReadme

\* The topics request of A was answered 401 and A was still written, without
\* topics.
C15_Witness ==
  /\ RunSummarised
  /\ denied = {TopicsKey("A")}
  /\ \E k \in WritesOf("A") :
       writes[k].body.topics = Array(<<>>) /\ writes[k].status = "ok"

\* The makeGitHubRequest call of chain c has not settled.
InFlight(c) == req[c].st \in {"sending", "sleeping"}
TopicsUnsettled(i) == tpc[i] = "topics" /\ InFlight(i)
ReadmeIssued(i) == tpc[i] \in {"readme", "done"}

\* C16 as stated: the two fetches of a repository are started together, so
\* while its topics request is unsettled its README request has been issued.
C16_Original == \A i \in Slots : TopicsUnsettled(i) => ReadmeIssued(i)

\* The README request of a repository is issued by the step that resumes
\* from its settled topics request.
ReadmeFollowsTopics ==
  \A i \in Slots :
    (tpc[i] # "readme" /\ tpc'[i] = "readme")
      => /\ tpc[i] = "topics"
         /\ Settled(req[i])
         /\ req'[i].key = ReadmeKey(data[i])
         /\ req'[i].st \in {"sending", "returned"}

\* C16 as amended: the topics fetch and the README fetch of one repository
\* run one after the other; the README request is issued only once the
\* topics request has settled, so the one request a repository has in flight
\* is its topics request and later its README request; the callbacks of
\* different repositories of a batch do run concurrently.
C16_ReadmeAfterTopics ==
  /\ [](\A i \in Slots :
          (Fetching(i) /\ InFlight(i)) =>
            req[i].key = IF tpc[i] = "topics" THEN TopicsKey(data[i])
                                             ELSE ReadmeKey(data[i]))
  /\ [][ReadmeFollowsTopics]_vars

\* Two repositories of one batch in flight at once: the README request of
\* the first and the topics request of the second.
C16_Witness ==
  /\ tpc[1] = "readme" /\ InFlight(1) /\ req[1].key = ReadmeKey(data[1])
  /\ tpc[2] = "topics" /\ InFlight(2) /\ req[2].key = TopicsKey(data[2])

\* The step is a successful network response to chain c.
Succeeds(c) ==
  /\ req[c].st = "sending"
  /\ req'[c].st = "returned"
  /\ req'[c].last.status = 200

\* C17: a step that changes the cache is a successful network response, and
\* it sets exactly the entry of the call's own key to that response's payload
\* and the current time; so a cache hit, a failed attempt, a 401, a rate-limit
\* 403 and the last failure of a retry sequence leave the cache as it was,
\* and every entry holds a payload its own endpoint returned, stamped no
\* later than now.
C17_CacheWrittenOnSuccessOnly ==
  /\ [][(cache' # cache) =>
          \E c \in Chains :
            /\ Succeeds(c)
            /\ cache' = [cache EXCEPT ![req[c].key] = Entry(req'[c].last.body, now)]]_vars
  /\ [][\A c \in Chains :
          (req'[c] # req[c] /\ ~Succeeds(c)) => cache'[req[c].key] = cache[req[c].key]]_vars
  /\ [](\A k \in Keys :
          cache[k].kind = "entry" =>
            /\ cache[k].data \in Bodies(k, limits.repos)
            /\ cache[k].timestamp <= now)

\* A refresh of a stale entry failed with a 401 and the stale entry is still
\* there.
C17_Witness ==
  \E c \in Chains :
    /\ req[c].st = "thrown"
    /\ req[c].last.status = 401
    /\ cache[req[c].key].kind = "entry"
    /\ now - cache[req[c].key].timestamp >= CACHE_TTL

DistinctNames == \A i, j \in 1..Len(data) : i # j => data[i] # data[j]

\* C18: when the listed repositories have pairwise distinct full names, any
\* two makeGitHubRequest calls that are unsettled at the same moment have
\* different cache keys, and a call that is made finds no unsettled call
\* with its key.
C18_NoSharedKeyInFlight ==
  /\ [](DistinctNames =>
          \A c, d \in Chains :
            (c # d /\ InFlight(c) /\ InFlight(d)) => req[c].key # req[d].key)
  /\ [][DistinctNames =>
          \A c, d \in Chains :
            (c # d /\ Started(c) /\ InFlight(d)) => req'[c].key # req[d].key]_vars

\* The topics requests of two repositories of one batch, both unsettled.
C18_Witness ==
  /\ Len(data) = 2
  /\ InFlight(1) /\ req[1].key = TopicsKey("A")
  /\ InFlight(2) /\ req[2].key = TopicsKey("C")

Pending(k) == writes[k].status = "pending"

\* C19: while the backend list call is unsettled no GitHub request and no
\* write exists, and a GitHub request is made only once the stored records
\* are in; while any GitHub request is unsettled no write exists, and a write
\* is issued only when every GitHub request has settled; an update call is
\* issued only after every create call of the run, and only when all of them
\* have settled.
C19_PhaseOrder ==
  /\ [](pc = "awaitBackend" =>
          (writes = <<>> /\ \A c \in Chains : req[c].st = "idle"))
  /\ []((\E c \in Chains : req[c].st # "idle") => writes = <<>>)
  /\ [](UpdateCalls # {} =>
          /\ Cardinality(CreateCalls) = Len(newRepos)
          /\ \A k \in CreateCalls : ~Pending(k)
          /\ \A k \in CreateCalls : \A l \in UpdateCalls : k < l)
  /\ [][\A c \in Chains :
          Started(c) => /\ pc' \in {"awaitList", "awaitBatch"}
                        /\ existingRepoMap' = RepoMap(existingRepos')
                        /\ writes' = <<>>]_vars
  /\ [][Len(writes') > Len(writes) =>
          /\ \A c \in Chains : req[c].st = "idle"
          /\ \A k \in 1..Len(writes) : ~Pending(k)
          /\ pc \in {"createLoop", "updateLoop"}
          /\ pc = "updateLoop" => wi' = wi /\ Cardinality(CreateCalls) = Len(newRepos)]_vars

\* An update call is pending after the create call of the run has failed.
C19_Witness ==
  /\ pc = "awaitUpdates"
  /\ Len(writes) = 2
  /\ writes[1].method = "POST" /\ Failed(1)
  /\ writes[2].method = "PUT" /\ Pending(2)

\* The run has returned, with its summary logged or its error logged.
RunOver == pc = "idle" /\ outcome.kind \in {"summary", "aborted"}

\* C20: when every pending HTTP call settles, every backoff timer fires and
\* every ready continuation runs, a run that has started returns, whatever
\* the calls answer; no makeGitHubRequest call makes more than 3 attempts or
\* waits more than twice, and the batch index never passes the end of the
\* list by a whole batch.
C20_TickCompletes ==
  /\ (pc # "idle") ~> RunOver
  /\ [](\A c \in Chains : req[c].gets <= 3 /\ Len(req[c].waits) <= 2)
  /\ [](pc \in {"fetchLoop", "awaitBatch", "partition"} => bi < Len(data) + 5)

\* A run that reached its summary although the list request failed twice and
\* the topics and the README request failed on every attempt.
C20_Witness ==
  /\ RunSummarised
  /\ faults = 8
  /\ Len(writes) = 1
  /\ writes[1].body.topics = Array(<<>>)
  /\ writes[1].body.readme = DefaultReadme

====
